---- MODULE Spec2Model ----
(***************************************************************************)
(* The device-liveness monitor of plugins.v2/devicecheck/__init__.py:      *)
(* the plugin object (DeviceCheck), the host's lifecycle calls              *)
(* (init_plugin, stop_service) and the monitor worker (_monitor_devices),   *)
(* one step per blocking point of the worker.                               *)
(*                                                                         *)
(* Python values are written by their repr: "None", "''", "0", "445",      *)
(* "'445'", "'abc'" are None, the empty string, the integers 0 and 445 and  *)
(* the strings '445' and 'abc'. Names and addresses are always strings and  *)
(* are written bare.                                                        *)
(***************************************************************************)
EXTENDS Integers, Sequences, FiniteSets, TLC

VARIABLES
    enabled,          \* per instance: self._enabled
    devices,          \* per instance: self._devices
    check_interval,   \* per instance: self._check_interval
    timeout,          \* per instance: self._timeout
    monitor_thread,   \* per instance: self._monitor_thread, a thread slot, or 0 for None
    stop_event,       \* DeviceCheck._stop_event: the flag of the one Event of the class
    device_status,    \* DeviceCheck._device_status: the one dict of the class, key -> [status]
    pc,               \* per thread slot: position of the worker in _monitor_devices
    inst,             \* per thread slot: the instance (self) the thread runs for
    iter,             \* per thread slot: the list object the for loop iterates
    idx,              \* per thread slot: number of items the for loop has taken
    host_pc,          \* the host thread: idle, or blocked in stop_service's join
    host_self,        \* the instance of the host's current or last lifecycle call
    host_last,        \* outcome of the host's last completed lifecycle call
    stop_pending,     \* per thread slot: a stop_service call found it alive and it has not terminated
    loop_end,         \* per thread slot: how the thread's last for loop ended
    step,             \* what the step just taken did (the probe it ran, the events it sent)
    probe_log,        \* history: <<key, status>> of the first MaxLog completed probes
    notif_log,        \* history: <<key, status>> of the notifications those probes sent
    carried,          \* history: the cache at the last restart and the keys probed since
    category_config,  \* FileNameCategory: the config of the last init_plugin
    category_enabled, \* FileNameCategory: self._enabled
    override_category,\* FileNameCategory: self._override_category
    movie_rules,      \* FileNameCategory: self._movie_rules
    tv_rules          \* FileNameCategory: self._tv_rules

vars == <<enabled, devices, check_interval, timeout, monitor_thread, stop_event,
          device_status, pc, inst, iter, idx, host_pc, host_self, host_last, stop_pending,
          loop_end,
          step, probe_log, notif_log, carried, category_config, category_enabled,
          override_category, movie_rules, tv_rules>>

category_vars == <<category_config, category_enabled, override_category, movie_rules, tv_rules>>

monitor_vars == <<enabled, devices, check_interval, timeout, monitor_thread, stop_event,
                  device_status, pc, inst, iter, idx, host_pc, host_self, host_last,
                  stop_pending, loop_end, probe_log, notif_log, carried>>

logs == <<probe_log, notif_log>>

ghosts == <<probe_log, notif_log, carried>>

plugin_vars == <<enabled, devices, check_interval, timeout, monitor_thread>>

----------------------------------------------------------------------------
(* Bounds *)

\* Thread slots: a slot is free until a thread is started in it and again
\* after that thread has terminated.
MaxThreads == 2

\* Length of the recorded history of probes.
MaxLog == 3

Threads == 1..MaxThreads

\* the instance the host loads
Main == 1

\* a second instance of the class in the same process
Other == 2

\* Plugin instances (objects of class DeviceCheck).
Instances == {Main, Other}

None == "None"

----------------------------------------------------------------------------
(* Python values *)

\* bool(v)
Truthy(v) == v \notin {"None", "''", "0", "", "False"}

\* str(v)
Str(v) ==
    CASE v = "''"    -> ""
      [] v = "'445'" -> "445"
      [] v = "'abc'" -> "abc"
      [] OTHER       -> v

\* int(v): the integer, or the exception it raises
int(v) ==
    CASE v \in {"445", "'445'"} -> [ok |-> TRUE, value |-> 445, raises |-> "-"]
      [] v = "0"                -> [ok |-> TRUE, value |-> 0, raises |-> "-"]
      [] v \in {"'abc'", "''"}  -> [ok |-> FALSE, value |-> 0, raises |-> "ValueError"]
      [] OTHER                  -> [ok |-> FALSE, value |-> 0, raises |-> "TypeError"]

\* v is an int or a float (what Event.wait and socket.settimeout accept)
IsNumber(v) == v \in {"0", "3", "60", "445"}

\* d.get(field, default)
Get(d, field, default) == IF field \in DOMAIN d THEN d[field] ELSE default

\* the items a for loop or a comprehension takes from a str: its characters,
\* each a str of length one, written [chr |-> position]
Iterate(text) == [i \in 1..Len(text) |-> [chr |-> i]]

\* the item is a dict (has .get), not a str
IsDict(d) == "chr" \notin DOMAIN d

----------------------------------------------------------------------------
(* Inputs: the devices and configurations the host may supply *)

NAS     == [name |-> "NAS", ip |-> "10.0.0.5", port |-> "445"]
NoPort  == [name |-> "B", ip |-> "10.0.0.6"]
BadPort == [name |-> "X", ip |-> "10.0.0.7", port |-> "'abc'"]
NoName  == [name |-> "", ip |-> "10.0.0.8", port |-> "445"]
NoIp    == [name |-> "N", ip |-> "", port |-> "''"]
Zero    == [name |-> "Z", ip |-> "10.0.0.6", port |-> "0"]
Blank   == [name |-> "B2", ip |-> "10.0.0.6", port |-> "''"]
NullPort == [name |-> "N0", ip |-> "10.0.0.7", port |-> "None"]

DeviceLists ==
    { <<>>, <<NAS, NoPort>>, <<BadPort, NAS>>, <<NoName, NoIp>>, <<NoIp, NoPort>>,
      <<Zero, Blank>> }

\* a configuration as the host passes it to init_plugin
Config(en, devs, interval, tmo) ==
    [enabled |-> en, devices |-> devs, check_interval |-> interval, timeout |-> tmo]

\* "60" and "3" are numbers, "'60'" and "'3'" strings in their place
Configs ==
    { Config(TRUE, devs, "60", "3") : devs \in DeviceLists }
    \cup { Config(FALSE, devs, "60", "3") : devs \in { <<>>, <<NAS, NoPort>> } }
    \cup { Config(TRUE, <<NAS, NoPort>>, "'60'", "3"),
           Config(TRUE, <<BadPort, NAS>>, "60", "'3'") }

\* a device list given as delimited text lines
DeviceText == "OnlyName\nNAS#10.0.0.5#445"

TextConfigs == { Config(TRUE, DeviceText, "60", "3") }

\* what a probe's transport does: the peer answers, the peer does not answer
\* (connection refused, timeout, ping exit code 1), or the call raises
\* (unresolvable host, subprocess error)
Outcomes == {"answer", "no_answer", "raise"}

----------------------------------------------------------------------------
(* Helpers of the plugin *)

\* a device list taken as configured
ValidDevices_unfiltered(devs) == devs

\* [d for d in self._devices if d.get("name") and d.get("ip")]
RECURSIVE ValidDevices(_)
ValidDevices(devs) ==
    IF devs = <<>> THEN <<>>
    ELSE LET d == Head(devs)
             rest == ValidDevices(Tail(devs))
         IN IF Truthy(Get(d, "name", None)) /\ Truthy(Get(d, "ip", None))
            THEN <<d>> \o rest
            ELSE rest

\* if self._enabled and self._devices
StartCondition(en, devs) == en /\ devs # <<>>

\* Thread.is_alive() of the thread in slot t
is_alive(pcs, t) == pcs[t] # "dead"

\* a start that does not look at the running thread
ThreadRunning_unchecked(mt, pcs) == FALSE

\* if self._monitor_thread and self._monitor_thread.is_alive()
ThreadRunning(mt, pcs) == mt # 0 /\ is_alive(pcs, mt)

\* a slot a new Thread object of self can take: its thread has terminated
\* and no other instance still refers to that thread
IsFree(t, self, mts, pcs) ==
    pcs[t] = "dead" /\ \A i \in Instances \ {self} : mts[i] # t

\* the slot a newly created Thread object takes
FreeSlot(self, mts, pcs) ==
    CHOOSE t \in Threads :
        IsFree(t, self, mts, pcs) /\ \A u \in Threads : IsFree(u, self, mts, pcs) => t <= u

\* device_key = f"{device_ip}:{device_port or ''}"
device_key(device_ip, device_port) ==
    device_ip \o ":" \o (IF Truthy(device_port) THEN Str(device_port) ELSE "")

\* a choice of probe with no fallback to ping
CheckMethod_nofallback(device_port) ==
    IF Truthy(device_port) THEN "port" ELSE "ping"

\* which probe the worker runs for a device: _check_port when the port is
\* truthy and int() accepts it, _check_ping when int() raises ValueError or
\* TypeError or when the port is falsy
CheckMethod(device_port) ==
    IF Truthy(device_port)
    THEN IF int(device_port).ok THEN "port" ELSE "ping"
    ELSE "ping"

\* _check_ping: returncode == 0, every exception caught and turned into False.
\* A timeout that is no number makes self._timeout + 1 raise inside the try.
\* The result is [value, raised]: raised says the call raised to its caller.
_check_ping(outcome, tmo) ==
    IF ~IsNumber(tmo) \/ outcome = "raise"
    THEN [value |-> FALSE, raised |-> FALSE, sock |-> "none"]
    ELSE [value |-> (outcome = "answer"), raised |-> FALSE, sock |-> "none"]

\* a port probe that lets the exceptions of the socket calls through
_check_port_uncaught(outcome, tmo) ==
    IF ~IsNumber(tmo) \/ outcome = "raise"
    THEN [value |-> FALSE, raised |-> TRUE, sock |-> "unclosed"]
    ELSE [value |-> (outcome = "answer"), raised |-> FALSE, sock |-> "closed"]

\* _check_port: connect_ex(...) == 0, every exception caught and turned into
\* False. A timeout that is no number makes settimeout raise inside the try.
\* sock says what became of the socket the call created: "closed" when
\* sock.close() ran, "unclosed" when settimeout or connect_ex raised and the
\* except clause was entered with the socket open.
_check_port(outcome, tmo) ==
    IF ~IsNumber(tmo) \/ outcome = "raise"
    THEN [value |-> FALSE, raised |-> FALSE, sock |-> "unclosed"]
    ELSE [value |-> (outcome = "answer"), raised |-> FALSE, sock |-> "closed"]

\* the socket when _check_port has returned: a socket that sock.close() did
\* not close is closed only if the interpreter has already collected the
\* socket object, which the code does not control
SocketAfter(sock, collected) ==
    IF sock = "unclosed" THEN (IF collected THEN "closed" ELSE "open") ELSE sock

\* a worker that never finds a cached status
LastStatus_forgetful(cache, key) == None

\* last_status = self._device_status.get(device_key, {}).get("status")
LastStatus(cache, key) ==
    IF key \in DOMAIN cache THEN cache[key].status ELSE None

\* a notification after every probe
NotifyRequired_always(last_status, current_status) == TRUE

\* a notification on changes only, none on the first observation
NotifyRequired_changes_only(last_status, current_status) ==
    Truthy(last_status) /\ last_status # current_status

\* if last_status and last_status != current_status: send
\* elif not last_status: send
NotifyRequired(last_status, current_status) ==
    IF Truthy(last_status) /\ last_status # current_status THEN TRUE
    ELSE IF ~Truthy(last_status) THEN TRUE
    ELSE FALSE

\* an event name that does not follow the status
EventName_fixed(status) == "device_online"

\* "event_name": f"device_{status}"
EventName(status) == "device_" \o status

\* a publication whose failure propagates to the caller
_send_device_event_uncaught(device_name, device_ip, device_port, status, publish_ok) ==
    [events |-> << [plugin_id |-> "DeviceCheck",
                    event_name |-> EventName(status),
                    device_name |-> device_name,
                    device_ip |-> device_ip,
                    device_port |-> device_port,
                    status |-> status,
                    delivered |-> publish_ok] >>,
     raised |-> ~publish_ok]

\* _send_device_event: builds the payload and publishes it; an exception of
\* send_event is caught and logged. The result is [events, raised]: the
\* payload handed to the event manager with whether it was delivered, and
\* whether the call raised to its caller.
_send_device_event(device_name, device_ip, device_port, status, publish_ok) ==
    [events |-> << [plugin_id |-> "DeviceCheck",
                    event_name |-> EventName(status),
                    device_name |-> device_name,
                    device_ip |-> device_ip,
                    device_port |-> device_port,
                    status |-> status,
                    delivered |-> publish_ok] >>,
     raised |-> FALSE]

\* a cycle with no except clause: the exception ends the thread
ExceptTarget_uncaught == "dead"

\* where the worker goes after the except clause of the cycle: sleep(5)
ExceptTarget == "backoff"

\* a for loop that never looks at the stop event
BreakOnStop_never(ev) == FALSE

\* if self._stop_event.is_set(): break
BreakOnStop(ev) == ev

\* a cache whose every entry takes the status of the last probe
UpdateCache_all(cache, key, current_status) ==
    [k \in DOMAIN cache \cup {key} |-> [status |-> current_status]]

\* a cache that keeps only the entry of the last probe
UpdateCache_purging(cache, key, current_status) ==
    [k \in {key} |-> [status |-> current_status]]

\* a cache that is written only for keys it does not hold yet
UpdateCache_new_keys_only(cache, key, current_status) ==
    [k \in DOMAIN cache \cup {key} |->
        IF k \in DOMAIN cache THEN cache[k] ELSE [status |-> current_status]]

\* self._device_status[device_key] = {"status": current_status, ...}
UpdateCache(cache, key, current_status) ==
    [k \in DOMAIN cache \cup {key} |->
        IF k = key THEN [status |-> current_status] ELSE cache[k]]

\* get_state: self._enabled and len(self._devices) > 0
get_state(en, devs) == en /\ Len(devs) > 0

\* one row of get_page for a device: the key is built from
\* device.get('port', ''), the status is "unknown" without a cache entry
PageRow(device, cache) ==
    LET page_key == Get(device, "ip", None) \o ":" \o Str(Get(device, "port", "''"))
        device_port == Get(device, "port", None)
    IN [name |-> Get(device, "name", None),
        ip |-> Get(device, "ip", None),
        port |-> IF Truthy(device_port) THEN device_port ELSE "'-'",
        check_method |-> IF Truthy(device_port) THEN "port" ELSE "ping",
        status |-> IF page_key \in DOMAIN cache THEN cache[page_key].status ELSE "unknown"]

\* get_page: one row per device of self._devices, or AttributeError when an
\* item of self._devices is no dict
get_page(devs, cache) ==
    IF \E i \in 1..Len(devs) : ~IsDict(devs[i])
    THEN [raised |-> TRUE, rows |-> <<>>]
    ELSE [raised |-> FALSE, rows |-> [i \in 1..Len(devs) |-> PageRow(devs[i], cache)]]

\* the history of restarts before the first restart: before is the cache as
\* the last restart found it, since the keys probed after it, first the key
\* of the latest probe step when that probe was the first of its key after
\* it, orphaned the cached keys that an init_plugin found missing from its
\* new device list and that no probe has written since, stale the key of
\* the latest probe step when that key was orphaned
NoRestart ==
    [restarted |-> FALSE, before |-> <<>>, since |-> {}, first |-> "", orphaned |-> {},
     stale |-> ""]

\* the keys under which the worker caches the devices of a list
ListKeys(devs) ==
    { device_key(devs[i].ip, Get(devs[i], "port", None)) : i \in 1..Len(devs) }

\* what a step that runs no probe leaves in step
Quiet ==
    [kind |-> "quiet", thread |-> 0, device |-> <<>>, key |-> "", method |-> "",
     outcome |-> "", raised |-> FALSE, last_status |-> None, current_status |-> "",
     events |-> <<>>, sock |-> "none"]

----------------------------------------------------------------------------
(* FileNameCategory: strings, rules and events *)

\* A Python str is the sequence of its characters.
IsSpace(c) == c \in {" ", "\n", "\t"}

RECURSIVE lstrip(_)
lstrip(s) == IF s # <<>> /\ IsSpace(Head(s)) THEN lstrip(Tail(s)) ELSE s

RECURSIVE rstrip(_)
rstrip(s) == IF s # <<>> /\ IsSpace(s[Len(s)]) THEN rstrip(SubSeq(s, 1, Len(s) - 1)) ELSE s

\* s.strip()
strip(s) == rstrip(lstrip(s))

\* s.split(sep), sep one character
RECURSIVE split(_, _)
split(s, sep) ==
    IF \A i \in 1..Len(s) : s[i] # sep THEN <<s>>
    ELSE LET i == CHOOSE j \in 1..Len(s) : s[j] = sep /\ \A k \in 1..(j - 1) : s[k] # sep
         IN <<SubSeq(s, 1, i - 1)>> \o split(SubSeq(s, i + 1, Len(s)), sep)

\* s.startswith(prefix)
startswith(s, prefix) == Len(s) >= Len(prefix) /\ SubSeq(s, 1, Len(prefix)) = prefix

\* sub in s
Contains(s, sub) == \E i \in 0..(Len(s) - Len(sub)) : SubSeq(s, i + 1, i + Len(sub)) = sub

\* the lower-case form of a character (re.IGNORECASE)
Lower(c) ==
    CASE c = "R" -> "r"
      [] c = "X" -> "x"
      [] c = "K" -> "k"
      [] c = "A" -> "a"
      [] OTHER   -> c

LowerStr(s) == [i \in 1..Len(s) |-> Lower(s[i])]

\* re.search(pattern, original_name, re.IGNORECASE) for a pattern of letters
\* and digits, which matches where it occurs whatever the case, and for a
\* pattern with an unclosed parenthesis, for which re raises re.error
re_search(pattern, original_name) ==
    IF "(" \in {pattern[i] : i \in 1..Len(pattern)}
    THEN "error"
    ELSE IF Contains(LowerStr(original_name), LowerStr(pattern)) THEN "match" ELSE "no_match"

\* line.startswith('#'): the line is skipped as a comment
IsComment(line) == startswith(line, <<"#">>)

\* the rules one stripped line of the text yields: one or none
ParseLine(line) ==
    LET parts == split(line, "#")
    IN IF line = <<>> \/ IsComment(line) THEN <<>>
       ELSE IF Len(parts) >= 3
       THEN IF strip(parts[2]) # <<>> /\ strip(parts[3]) # <<>>
            THEN << [path |-> strip(parts[1]), pattern |-> strip(parts[2]),
                     category |-> strip(parts[3])] >>
            ELSE <<>>
       ELSE IF Len(parts) = 2
       THEN IF strip(parts[1]) # <<>> /\ strip(parts[2]) # <<>>
            THEN << [path |-> <<>>, pattern |-> strip(parts[1]), category |-> strip(parts[2])] >>
            ELSE <<>>
       ELSE <<>>

RECURSIVE ParseLines(_)
ParseLines(lines) ==
    IF lines = <<>> THEN <<>>
    ELSE ParseLine(strip(Head(lines))) \o ParseLines(Tail(lines))

\* _parse_rules(rules_text)
_parse_rules(rules_text) ==
    IF rules_text = <<>> THEN <<>>
    ELSE ParseLines(split(strip(rules_text), "\n"))

\* a loop that goes on after a match: the last matching rule decides
RECURSIVE MatchRules_last(_, _, _)
MatchRules_last(rules, source_path, original_name) ==
    IF rules = <<>> THEN <<>>
    ELSE LET rule == Head(rules)
             rest == MatchRules_last(Tail(rules), source_path, original_name)
         IN IF rule.path # <<>> /\ ~Contains(source_path, rule.path) THEN rest
            ELSE IF re_search(rule.pattern, original_name) = "match" /\ rest = <<>>
            THEN rule.category
            ELSE rest

\* the for loop over the rules: new_category, or <<>> for None
RECURSIVE MatchRules(_, _, _)
MatchRules(rules, source_path, original_name) ==
    IF rules = <<>> THEN <<>>
    ELSE LET rule == Head(rules)
         IN IF rule.path # <<>> /\ ~Contains(source_path, rule.path)
            THEN MatchRules(Tail(rules), source_path, original_name)
            ELSE IF re_search(rule.pattern, original_name) = "match"
            THEN rule.category
            ELSE MatchRules(Tail(rules), source_path, original_name)

\* a final category that is always appended to the current one
FinalCategory_append(override, current_category, new_category) ==
    IF current_category # <<>> THEN current_category \o <<"/">> \o new_category
    ELSE new_category

\* final_category
FinalCategory(override, current_category, new_category) ==
    IF override THEN new_category
    ELSE IF current_category # <<>> THEN current_category \o <<"/">> \o new_category
    ELSE new_category

\* updated_render_str
UpdatedRenderStr(render_str, current_category, final_category) ==
    final_category \o <<"/">> \o
        (IF current_category # <<>> /\ startswith(render_str, current_category \o <<"/">>)
         THEN SubSeq(render_str, Len(current_category) + 2, Len(render_str))
         ELSE render_str)

\* category_handler(event): the event and its media info as the handler
\* leaves them. original_name is the name methods 1 to 3 find, path the
\* source path, category the category of the media info (<<>> for None).
category_handler(en, override, m_rules, t_rules, e) ==
    IF ~en \/ e.render_str = <<>> \/ e.original_name = <<>> THEN e
    ELSE IF e.type \notin {"MOVIE", "TV"} THEN e
    ELSE LET rules == IF e.type = "MOVIE" THEN m_rules ELSE t_rules
             current_category == e.category
             new_category == MatchRules(rules, e.path, e.original_name)
             final_category == FinalCategory(override, current_category, new_category)
         IN IF rules = <<>> \/ new_category = <<>> THEN e
            ELSE [e EXCEPT !.category = final_category,
                           !.updated_str = UpdatedRenderStr(e.render_str, current_category,
                                                            final_category),
                           !.updated = TRUE,
                           !.source = "FileNameCategory"]

\* a configuration as the host passes it to FileNameCategory.init_plugin
CategoryConfig(en, override, m_text, t_text) ==
    [enabled |-> en, override_category |-> override, movie_rules |-> m_text,
     tv_rules |-> t_text]

\* the rule #RX#HD, written with an empty path
EmptyPathText == <<"#", "R", "X", "#", "H", "D">>

\* rules texts: "/m#RX#HD\n4K#U", "# c\n\n ( # B \nrx#L\nRX#HD", "/m#RX", "a##b"
RulesTexts ==
    { <<>>,
      EmptyPathText,
      <<"/", "m", "#", "R", "X", "#", "H", "D", "\n", "4", "K", "#", "U">>,
      <<"#", " ", "c", "\n", "\n", " ", "(", " ", "#", " ", "B", " ", "\n",
        "r", "x", "#", "L", "\n", "R", "X", "#", "H", "D">>,
      <<"a", "#", "#", "b">> }

CategoryConfigs ==
    { CategoryConfig(TRUE, override, m_text, <<"4", "K", "#", "U">>) :
        override \in BOOLEAN, m_text \in RulesTexts }
    \cup { CategoryConfig(FALSE, TRUE, EmptyPathText, <<>>) }

\* a TransferRename event before any handler has seen it
Event(type, original_name, path, category, render_str) ==
    [type |-> type, original_name |-> original_name, path |-> path, category |-> category,
     render_str |-> render_str, updated_str |-> <<>>, updated |-> FALSE, source |-> "None"]

\* The events delivered: each has event data, a rename_dict and a media
\* info (without them the handler returns at once and assigns nothing).
\* Names "a.Rx", "a4k", "a" and none; paths "/m/a", "/t" and none;
\* categories None and "M"; render strings "M/t", "t" and "".
Events ==
    { Event(type, original_name, path, category, render_str) :
        type \in {"MOVIE", "TV", "UNKNOWN"},
        original_name \in { <<"a", ".", "R", "x">>, <<"a", "4", "k">>, <<"a">>, <<>> },
        path \in { <<"/", "m", "/", "a">>, <<"/", "t">>, <<>> },
        category \in { <<>>, <<"M">> },
        render_str \in { <<"M", "/", "t">>, <<"t">>, <<>> } }

----------------------------------------------------------------------------
(* The state after construction: the class attributes *)

Init ==
    /\ enabled = [i \in Instances |-> FALSE]
    /\ devices = [i \in Instances |-> <<>>]
    /\ check_interval = [i \in Instances |-> "60"]
    /\ timeout = [i \in Instances |-> "3"]
    /\ monitor_thread = [i \in Instances |-> 0]
    /\ stop_event = FALSE
    /\ device_status = <<>>
    /\ pc = [t \in Threads |-> "dead"]
    /\ inst = [t \in Threads |-> 0]
    /\ iter = [t \in Threads |-> <<>>]
    /\ idx = [t \in Threads |-> 0]
    /\ host_pc = "idle"
    /\ host_self = Main
    /\ host_last = "none"
    /\ stop_pending = [t \in Threads |-> FALSE]
    /\ loop_end = [t \in Threads |-> "none"]
    /\ step = Quiet
    /\ probe_log = <<>>
    /\ notif_log = <<>>
    /\ carried = NoRestart
    /\ category_config = CategoryConfig(FALSE, TRUE, <<>>, <<>>)
    /\ category_enabled = FALSE
    /\ override_category = TRUE
    /\ movie_rules = <<>>
    /\ tv_rules = <<>>

----------------------------------------------------------------------------
(* The host's lifecycle calls on the instance self *)

\* init_plugin(None), init_plugin({}): only the stop event is cleared
InitPluginNoConfig(self) ==
    /\ host_pc = "idle"
    /\ stop_event' = FALSE
    /\ host_self' = self
    /\ host_last' = "init:no_config"
    /\ step' = Quiet
    /\ UNCHANGED <<category_vars, ghosts, plugin_vars, device_status, pc, inst, iter, idx, host_pc, stop_pending, loop_end>>

\* init_plugin(config), config["devices"] a list of dicts
InitPluginStep(self, config) ==
    /\ host_pc = "idle"
    /\ stop_event' = FALSE
    /\ host_self' = self
    /\ enabled' = [enabled EXCEPT ![self] = config.enabled]
    /\ devices' = [devices EXCEPT ![self] = ValidDevices(config.devices)]
    /\ check_interval' = [check_interval EXCEPT ![self] = config.check_interval]
    /\ timeout' = [timeout EXCEPT ![self] = config.timeout]
    /\ IF StartCondition(config.enabled, ValidDevices(config.devices))
       THEN IF ThreadRunning(monitor_thread[self], pc)
            THEN /\ host_last' = "init:already_running"
                 /\ UNCHANGED <<monitor_thread, pc, inst>>
            ELSE /\ \E t \in Threads : IsFree(t, self, monitor_thread, pc)
                 /\ monitor_thread' = [monitor_thread EXCEPT ![self] = FreeSlot(self, monitor_thread, pc)]
                 /\ pc' = [pc EXCEPT ![FreeSlot(self, monitor_thread, pc)] = "while"]
                 /\ inst' = [inst EXCEPT ![FreeSlot(self, monitor_thread, pc)] = self]
                 /\ host_last' = "init:started"
       ELSE /\ host_last' = "init:not_started"
            /\ UNCHANGED <<monitor_thread, pc, inst>>
    /\ step' = Quiet
    /\ UNCHANGED <<category_vars, logs, device_status, iter, idx, host_pc, stop_pending, loop_end>>

InitPlugin(self, config) == InitPluginStep(self, config) /\ UNCHANGED carried

\* init_plugin(config), config["devices"] a str of delimited lines: the str
\* is stored (line 58) and the list comprehension over its characters raises
\* AttributeError (line 63), so init_plugin returns by that exception
InitPluginText(self, config) ==
    /\ host_pc = "idle"
    /\ stop_event' = FALSE
    /\ host_self' = self
    /\ enabled' = [enabled EXCEPT ![self] = config.enabled]
    /\ devices' = [devices EXCEPT ![self] = Iterate(config.devices)]
    /\ check_interval' = [check_interval EXCEPT ![self] = config.check_interval]
    /\ timeout' = [timeout EXCEPT ![self] = config.timeout]
    /\ host_last' = IF Iterate(config.devices) = <<>> THEN "init_text:not_started"
                                                     ELSE "init_text:raised"
    /\ step' = Quiet
    /\ UNCHANGED <<category_vars, ghosts, monitor_thread, device_status, pc, inst, iter, idx, host_pc, stop_pending, loop_end>>

\* stop_service up to the join: set the event; join only a live thread
StopService(self) ==
    /\ host_pc = "idle"
    /\ stop_event' = TRUE
    /\ host_self' = self
    /\ stop_pending' = [t \in Threads |-> stop_pending[t] \/ (is_alive(pc, t) /\ inst[t] = self)]
    /\ IF ThreadRunning(monitor_thread[self], pc)
       THEN /\ host_pc' = "join"
            /\ UNCHANGED host_last
       ELSE /\ host_last' = "stop:no_thread"
            /\ UNCHANGED host_pc
    /\ step' = Quiet
    /\ UNCHANGED <<category_vars, ghosts, plugin_vars, device_status, pc, inst, iter, idx,
                   loop_end>>

\* join(timeout=5) returns: the thread has terminated, or the 5 s are over
JoinReturn ==
    /\ host_pc = "join"
    /\ host_pc' = "idle"
    /\ host_last' = IF is_alive(pc, monitor_thread[host_self]) THEN "stop:join_timeout"
                                                                ELSE "stop:joined"
    /\ step' = Quiet
    /\ UNCHANGED <<category_vars, ghosts, plugin_vars, stop_event, device_status, pc, inst, iter, idx,
                   host_self, stop_pending, loop_end>>

\* get_page(): returns get_page(self._devices, self._device_status) and
\* assigns nothing; step holds what the call returned
GetPage(self) ==
    /\ step' = [kind |-> "page", self |-> self,
                raised |-> get_page(devices[self], device_status).raised,
                rows |-> get_page(devices[self], device_status).rows]
    /\ UNCHANGED <<category_vars, ghosts, plugin_vars, stop_event, device_status, pc, inst, iter, idx,
                   host_pc, host_self, host_last, stop_pending, loop_end>>

\* get_state(): returns get_state(self._enabled, self._devices) and assigns
\* nothing; step holds what the call returned
GetState(self) ==
    /\ step' = [kind |-> "state", self |-> self,
                value |-> get_state(enabled[self], devices[self])]
    /\ UNCHANGED <<category_vars, ghosts, plugin_vars, stop_event, device_status, pc, inst, iter, idx,
                   host_pc, host_self, host_last, stop_pending, loop_end>>

----------------------------------------------------------------------------
(* The worker: _monitor_devices, run by the thread in slot t for inst[t] *)

CycleList_captured(previous, current) == IF previous = <<>> THEN current ELSE previous

\* for device in self._devices: the attribute is read when the for statement
\* is entered, so a cycle iterates the list that is bound to it at that
\* moment, whatever list the previous cycle iterated
CycleList(previous, current) == current

\* while not self._stop_event.is_set(): ... for device in self._devices
WhileCheck(t) ==
    /\ pc[t] = "while"
    /\ IF stop_event
       THEN /\ pc' = [pc EXCEPT ![t] = "exit"]
            /\ UNCHANGED <<iter, idx, loop_end>>
       ELSE /\ pc' = [pc EXCEPT ![t] = "for"]
            /\ iter' = [iter EXCEPT ![t] = CycleList(iter[t], devices[inst[t]])]
            /\ idx' = [idx EXCEPT ![t] = 0]
            /\ loop_end' = [loop_end EXCEPT ![t] = "running"]
    /\ step' = Quiet
    /\ UNCHANGED <<category_vars, ghosts, plugin_vars, stop_event, device_status, inst, host_pc, host_self,
                   host_last, stop_pending>>

\* the for loop takes its next device: the list is exhausted, or the stop
\* event is set (break), or the item is no dict (device.get raises
\* AttributeError), or the device has no address (continue), or the probe
\* of the device begins
ForNext(t) ==
    /\ pc[t] = "for"
    /\ IF idx[t] >= Len(iter[t])
       THEN /\ pc' = [pc EXCEPT ![t] = "wait"]
            /\ loop_end' = [loop_end EXCEPT ![t] = "exhausted"]
            /\ UNCHANGED idx
       ELSE IF BreakOnStop(stop_event)
       THEN /\ pc' = [pc EXCEPT ![t] = "wait"]
            /\ loop_end' = [loop_end EXCEPT ![t] = "break"]
            /\ idx' = [idx EXCEPT ![t] = idx[t] + 1]
       ELSE /\ idx' = [idx EXCEPT ![t] = idx[t] + 1]
            /\ pc' = [pc EXCEPT ![t] =
                        IF ~IsDict(iter[t][idx[t] + 1]) THEN ExceptTarget
                        ELSE IF Truthy(Get(iter[t][idx[t] + 1], "ip", None)) THEN "probe"
                        ELSE "for"]
            /\ loop_end' = [loop_end EXCEPT ![t] =
                              IF ~IsDict(iter[t][idx[t] + 1]) THEN "error" ELSE "running"]
    /\ step' = Quiet
    /\ UNCHANGED <<category_vars, ghosts, plugin_vars, stop_event, device_status, inst, iter, host_pc,
                   host_self, host_last, stop_pending>>

\* the probe of the current device returns: status, cache update, event
ProbeStep(t) ==
    /\ pc[t] = "probe"
    /\ \E outcome \in Outcomes, publish_ok \in BOOLEAN, collected \in BOOLEAN :
         LET device      == iter[t][idx[t]]
             device_name == Get(device, "name", "Unknown")
             device_ip   == Get(device, "ip", None)
             device_port == Get(device, "port", None)
             key         == device_key(device_ip, device_port)
             method      == CheckMethod(device_port)
             probe       == IF method = "port" THEN _check_port(outcome, timeout[inst[t]])
                                               ELSE _check_ping(outcome, timeout[inst[t]])
             last_status == LastStatus(device_status, key)
             current_status == IF probe.value THEN "online" ELSE "offline"
             sent        == IF NotifyRequired(last_status, current_status)
                            THEN _send_device_event(device_name, device_ip, device_port,
                                                    current_status, publish_ok)
                            ELSE [events |-> <<>>, raised |-> FALSE]
             info        == [kind |-> "probe", thread |-> t, device |-> device, key |-> key,
                             method |-> method, outcome |-> outcome, raised |-> probe.raised,
                             last_status |-> last_status, current_status |-> current_status,
                             events |-> <<>>, sock |-> SocketAfter(probe.sock, collected)]
         IN IF probe.raised
            THEN /\ pc' = [pc EXCEPT ![t] = ExceptTarget]
                 /\ loop_end' = [loop_end EXCEPT ![t] = "error"]
                 /\ step' = info
                 /\ UNCHANGED device_status
            ELSE /\ device_status' = UpdateCache(device_status, key, current_status)
                 /\ step' = [info EXCEPT !.events = sent.events]
                 /\ pc' = [pc EXCEPT ![t] = IF sent.raised THEN ExceptTarget ELSE "pace"]
                 /\ loop_end' = [loop_end EXCEPT ![t] =
                                   IF sent.raised THEN "error" ELSE "running"]
    /\ UNCHANGED <<category_vars, plugin_vars, stop_event, inst, iter, idx, host_pc,
                   host_self, host_last, stop_pending>>

Probe(t) == ProbeStep(t) /\ UNCHANGED ghosts

\* the same step with its probe and its notification entered in the history
RecordedProbe(t) ==
    /\ ProbeStep(t)
    /\ UNCHANGED carried
    /\ IF step'.raised \/ Len(probe_log) >= MaxLog
       THEN UNCHANGED logs
       ELSE /\ probe_log' = Append(probe_log, <<step'.key, step'.current_status>>)
            /\ notif_log' =
                  IF step'.events = <<>> THEN notif_log
                  ELSE Append(notif_log, <<step'.key, step'.events[1].status>>)

\* sleep(1) is over
Pace(t) ==
    /\ pc[t] = "pace"
    /\ pc' = [pc EXCEPT ![t] = "for"]
    /\ step' = Quiet
    /\ UNCHANGED <<category_vars, ghosts, plugin_vars, stop_event, device_status, inst, iter, idx, host_pc,
                   host_self, host_last, stop_pending, loop_end>>

\* self._stop_event.wait(self._check_interval): returns at once when the
\* event is set; otherwise the timeout is used, and raises TypeError when it
\* is no number; otherwise returns when the interval is over or the event is set
Wait(t) ==
    /\ pc[t] = "wait"
    /\ pc' = [pc EXCEPT ![t] =
                IF stop_event THEN "while"
                ELSE IF ~IsNumber(check_interval[inst[t]]) THEN ExceptTarget
                ELSE "while"]
    /\ loop_end' = [loop_end EXCEPT ![t] =
                      IF ~stop_event /\ ~IsNumber(check_interval[inst[t]]) THEN "error"
                      ELSE loop_end[t]]
    /\ step' = Quiet
    /\ UNCHANGED <<category_vars, ghosts, plugin_vars, stop_event, device_status, inst, iter, idx, host_pc,
                   host_self, host_last, stop_pending>>

\* sleep(5) of the except clause is over
Backoff(t) ==
    /\ pc[t] = "backoff"
    /\ pc' = [pc EXCEPT ![t] = "while"]
    /\ step' = Quiet
    /\ UNCHANGED <<category_vars, ghosts, plugin_vars, stop_event, device_status, inst, iter, idx, host_pc,
                   host_self, host_last, stop_pending, loop_end>>

\* the loop is left: the thread logs and terminates
Exit(t) ==
    /\ pc[t] = "exit"
    /\ pc' = [pc EXCEPT ![t] = "dead"]
    /\ inst' = [inst EXCEPT ![t] = 0]
    /\ iter' = [iter EXCEPT ![t] = <<>>]
    /\ idx' = [idx EXCEPT ![t] = 0]
    /\ stop_pending' = [stop_pending EXCEPT ![t] = FALSE]
    /\ loop_end' = [loop_end EXCEPT ![t] = "none"]
    /\ step' = Quiet
    /\ UNCHANGED <<category_vars, ghosts, plugin_vars, stop_event, device_status, host_pc, host_self, host_last>>

Worker(t) ==
    \/ WhileCheck(t)
    \/ ForNext(t)
    \/ Probe(t)
    \/ Pace(t)
    \/ Wait(t)
    \/ Backoff(t)
    \/ Exit(t)

\* One plugin instance, Main, driven by the host.
Next ==
    \/ InitPluginNoConfig(Main)
    \/ \E config \in Configs : InitPlugin(Main, config)
    \/ \E config \in TextConfigs : InitPluginText(Main, config)
    \/ StopService(Main)
    \/ JoinReturn
    \/ \E t \in Threads : Worker(t)

Spec == Init /\ [][Next]_vars

\* the worker thread is scheduled as long as it can take a step
FairSpec == Spec /\ \A t \in Threads : WF_vars(Worker(t))

\* The monitor with the history of its probes recorded: the host starts and
\* restarts it with the configurations HistConfigs and stops it.
HistConfigs ==
    { Config(TRUE, <<NAS, NoPort>>, "'60'", "3"),
      Config(TRUE, <<Zero, Blank>>, "60", "3") }

HistWorker(t) ==
    \/ WhileCheck(t)
    \/ ForNext(t)
    \/ RecordedProbe(t)
    \/ Pace(t)
    \/ Wait(t)
    \/ Backoff(t)
    \/ Exit(t)

HistNext ==
    \/ \E config \in HistConfigs : InitPlugin(Main, config)
    \/ StopService(Main)
    \/ JoinReturn
    \/ \E t \in Threads : HistWorker(t)

HistSpec == Init /\ [][HistNext]_vars

\* The monitor with the history of its restarts recorded. A restart is an
\* init_plugin with an enabled configuration that follows a stop_service.
RestartInitPlugin(self, config) ==
    /\ InitPluginStep(self, config)
    /\ LET orphaned == carried.orphaned \cup
                          (DOMAIN device_status \ ListKeys(ValidDevices(config.devices)))
       IN carried' =
            IF config.enabled /\ host_last \in {"stop:no_thread", "stop:join_timeout", "stop:joined"}
            THEN [restarted |-> TRUE, before |-> device_status, since |-> {}, first |-> "",
                  orphaned |-> orphaned, stale |-> ""]
            ELSE [carried EXCEPT !.orphaned = orphaned]

RestartProbe(t) ==
    /\ ProbeStep(t)
    /\ UNCHANGED logs
    /\ carried' =
          IF step'.raised THEN carried
          ELSE [carried EXCEPT !.since = carried.since \cup {step'.key},
                               !.first = IF carried.restarted /\ step'.key \notin carried.since
                                         THEN step'.key ELSE "",
                               !.orphaned = carried.orphaned \ {step'.key},
                               !.stale = IF step'.key \in carried.orphaned
                                         THEN step'.key ELSE ""]

RestartWorker(t) ==
    \/ WhileCheck(t)
    \/ ForNext(t)
    \/ RestartProbe(t)
    \/ Pace(t)
    \/ Wait(t)
    \/ Backoff(t)
    \/ Exit(t)

RestartNext ==
    \/ \E config \in HistConfigs : RestartInitPlugin(Main, config)
    \/ StopService(Main)
    \/ JoinReturn
    \/ \E t \in Threads : RestartWorker(t)

RestartSpec == Init /\ [][RestartNext]_vars

\* Two instances of the class in one process, each started and stopped by
\* the host with the configurations TwoConfigs.
TwoConfigs ==
    { Config(TRUE, <<NAS>>, "'60'", "3") }

TwoNext ==
    \/ \E self \in Instances, config \in TwoConfigs : InitPlugin(self, config)
    \/ \E self \in Instances : StopService(self)
    \/ JoinReturn
    \/ \E t \in Threads : Worker(t)

TwoSpec == Init /\ [][TwoNext]_vars

\* FileNameCategory.init_plugin(config), config not empty
CategoryInitPlugin(config) ==
    /\ category_config' = config
    /\ category_enabled' = config.enabled
    /\ override_category' = config.override_category
    /\ movie_rules' = _parse_rules(config.movie_rules)
    /\ tv_rules' = _parse_rules(config.tv_rules)
    /\ step' = Quiet
    /\ UNCHANGED monitor_vars

\* category_handler(event): step holds the event as it came and as the
\* handler leaves it
CategoryHandler(e) ==
    /\ step' = [kind |-> "category", in |-> e,
                out |-> category_handler(category_enabled, override_category, movie_rules,
                                         tv_rules, e)]
    /\ UNCHANGED <<category_vars, monitor_vars>>

\* The file-name category plugin: the host loads configurations and the
\* event manager delivers TransferRename events.
CategoryNext ==
    \/ \E config \in CategoryConfigs : CategoryInitPlugin(config)
    \/ \E e \in Events : CategoryHandler(e)

CategorySpec == Init /\ [][CategoryNext]_vars

\* The monitor with its data page: the host starts and stops it with the
\* configurations PageConfigs, which hold a device for every form of the
\* port field, and reads the page and the state at any time.
PageConfigs ==
    { Config(TRUE, <<NAS, NoPort, Blank>>, "'60'", "3"),
      Config(TRUE, <<Zero, NullPort, BadPort>>, "60", "3") }

PageNext ==
    \/ \E config \in PageConfigs : InitPlugin(Main, config)
    \/ StopService(Main)
    \/ JoinReturn
    \/ GetPage(Main)
    \/ GetState(Main)
    \/ \E t \in Threads : Worker(t)

PageSpec == Init /\ [][PageNext]_vars

----------------------------------------------------------------------------
(* Properties *)

Alive == {t \in Threads : is_alive(pc, t)}

\* the step just taken completed a probe (status computed, cache written)
Probed == step.kind = "probe" /\ ~step.raised

\* C1: a probe step for key k emits a notification iff the cache held no
\* entry for k before the step or held a status other than the one the step
\* computed and wrote; a step that repeats the cached status emits nothing.
C1_NotifyIffFirstOrChanged ==
    [][ (step'.kind = "probe" /\ ~step'.raised) =>
          /\ step'.key \in DOMAIN device_status'
          /\ device_status'[step'.key].status = step'.current_status
          /\ (step'.events # <<>>) <=>
                \/ step'.key \notin DOMAIN device_status
                \/ device_status[step'.key].status # step'.current_status ]_vars

\* a probe step that found its own status in the cache and emitted nothing
C1_Witness ==
    /\ Probed
    /\ step.last_status = step.current_status
    /\ step.events = <<>>

\* C3: every stop request is honoured: a worker that was alive when
\* stop_service was called eventually terminates.
C3_StopHonoured ==
    \A t \in Threads : stop_pending[t] ~> (pc[t] = "dead")

\* C4: at most one monitor worker is alive.
C4_AtMostOneWorker == Cardinality(Alive) <= 1

\* init_plugin found the worker alive and started none, after a stop_service
\* whose join had timed out on that worker
C4_Witness ==
    /\ host_last = "init:already_running"
    /\ monitor_thread[host_self] # 0
    /\ stop_pending[monitor_thread[host_self]]
    /\ Cardinality(Alive) = 1

\* C5: once init_plugin has returned for an enabled configuration with a
\* valid device, and no stop has been requested since, a worker is alive
\* and inside its loop.
C5_RunningAfterStart ==
    (host_pc = "idle" /\ host_last \in {"init:started", "init:already_running"})
        => \E t \in Threads : pc[t] \notin {"dead", "exit"}

\* C6: a worker is started only by an init_plugin that leaves the plugin
\* enabled with a non-empty device list, every device of which has a name
\* and an address.
C6_StartOnlyWhenEnabledAndValid ==
    [][ (\E t \in Threads : pc[t] = "dead" /\ pc'[t] # "dead") =>
          /\ enabled'[host_self']
          /\ devices'[host_self'] # <<>>
          /\ \A i \in 1..Len(devices'[host_self']) :
                /\ "name" \in DOMAIN devices'[host_self'][i]
                /\ devices'[host_self'][i].name # ""
                /\ "ip" \in DOMAIN devices'[host_self'][i]
                /\ devices'[host_self'][i].ip # ""
          /\ host_last' = "init:started" ]_vars

\* init_plugin with an enabled configuration none of whose devices is valid
\* has returned and no worker runs
C6_Witness ==
    /\ host_last = "init:not_started"
    /\ enabled[host_self]
    /\ devices[host_self] = <<>>
    /\ Alive = {}

\* C7: the worker leaves its loop only at the loop test, with the stop
\* event set; it terminates only after leaving the loop that way; and after
\* the backoff of the except clause it is at the loop test again.
C7_LoopLeftOnlyOnStop ==
    [][ \A t \in Threads :
          /\ (pc[t] # "exit" /\ pc'[t] = "exit") => (pc[t] = "while" /\ stop_event)
          /\ (pc[t] # "dead" /\ pc'[t] = "dead") => pc[t] = "exit"
          /\ (pc[t] = "backoff" /\ pc'[t] # "backoff") => pc'[t] = "while" ]_vars

\* an exception of the cycle has been caught: the worker is in the backoff
C7_Witness == \E t \in Threads : pc[t] = "backoff"

\* C8: when publishing fails, the cache keeps the status just written and
\* the worker goes on to the pacing delay of the same cycle, not to the
\* except clause of the cycle.
C8_PublishFailureContained ==
    (Probed /\ step.events # <<>> /\ ~step.events[1].delivered) =>
        /\ pc[step.thread] = "pace"
        /\ step.key \in DOMAIN device_status
        /\ device_status[step.key].status = step.current_status
        /\ iter[step.thread][idx[step.thread]] = step.device

\* a probe step whose notification could not be published
C8_Witness ==
    /\ Probed
    /\ step.events # <<>>
    /\ ~step.events[1].delivered

\* C9: no probe raises to the loop; a probe whose transport fails or raises,
\* or that runs with a timeout that is no number, records the device as
\* offline, and the worker goes on to the pacing delay.
C9_ProbeNeverRaises ==
    step.kind = "probe" =>
        /\ ~step.raised
        /\ pc[step.thread] = "pace"
        /\ (step.outcome # "answer" \/ timeout[inst[step.thread]] \notin {"3"}) =>
              /\ step.current_status = "offline"
              /\ device_status[step.key].status = "offline"

\* a port probe whose transport raised
C9_Witness ==
    /\ step.kind = "probe"
    /\ step.method = "port"
    /\ step.outcome = "raise"
    /\ step.current_status = "offline"

\* C11: the notification of a probe step carries the name, address and port
\* of the device the step probed, the status the step wrote to the cache,
\* which is online or offline, and the event name device_online exactly
\* when the status is online and device_offline exactly when it is offline.
C11_PayloadMatchesProbe ==
    (Probed /\ step.events # <<>>) =>
        LET e == step.events[1]
        IN /\ Len(step.events) = 1
           /\ e.device_name = Get(step.device, "name", "Unknown")
           /\ e.device_ip = step.device.ip
           /\ e.device_port = Get(step.device, "port", None)
           /\ e.status \in {"online", "offline"}
           /\ e.status = device_status[step.key].status
           /\ (e.event_name = "device_online") <=> (e.status = "online")
           /\ (e.event_name = "device_offline") <=> (e.status = "offline")

\* an offline notification for a device configured with a port
C11_Witness ==
    /\ Probed
    /\ step.events # <<>>
    /\ step.events[1].status = "offline"
    /\ step.events[1].event_name = "device_offline"
    /\ step.events[1].device_port = "445"

\* the step just taken completed the first probe of its key after a restart
FirstProbeAfterRestart ==
    /\ Probed
    /\ carried.restarted
    /\ carried.first = step.key

\* C13 as stated: after a restart and before any probe the cache is empty,
\* and the first probe of a key after a restart emits a notification.
C13_RestartClearsCache ==
    /\ (carried.restarted /\ carried.since = {}) => device_status = <<>>
    /\ FirstProbeAfterRestart => step.events # <<>>

\* C13 as the code behaves: a restart leaves the cache as it was, and the
\* first probe of a key after a restart emits a notification iff the cache
\* held no entry for the key at the restart or held another status than the
\* one the probe computed.
C13_RestartKeepsCache ==
    /\ (carried.restarted /\ carried.since = {}) => device_status = carried.before
    /\ FirstProbeAfterRestart =>
          ((step.events # <<>>) <=>
              \/ step.key \notin DOMAIN carried.before
              \/ carried.before[step.key].status # step.current_status)

\* the first probe of a key after a restart computed the status cached
\* before the restart and emitted nothing
C13_Witness ==
    /\ FirstProbeAfterRestart
    /\ step.key \in DOMAIN carried.before
    /\ carried.before[step.key].status = step.current_status
    /\ step.events = <<>>

\* the keys under which the worker of instance self caches its devices
KeysOf(self) ==
    { device_key(devices[self][i].ip, Get(devices[self][i], "port", None)) :
        i \in 1..Len(devices[self]) }

\* C15: a worker leaves its loop only after a stop request on its own
\* instance; an init_plugin that clears the stop event leaves no live worker
\* of another instance with a stop request pending; and a probe changes the
\* cached status of no key of another instance.
C15_InstancesIndependent ==
    [][ /\ \A t \in Threads :
              (pc[t] = "while" /\ pc'[t] = "exit") => stop_pending[t]
        /\ (stop_event /\ ~stop_event') =>
              \A t \in Threads :
                  (stop_pending[t] /\ is_alive(pc, t)) => inst[t] = host_self'
        /\ (step'.kind = "probe") =>
              \A self \in Instances \ {inst[step'.thread]} :
                  \A k \in KeysOf(self) :
                      LastStatus(device_status', k) = LastStatus(device_status, k) ]_vars

\* the handler got as far as the evaluation of the rules for the event
Evaluated(e) ==
    /\ category_enabled
    /\ e.render_str # <<>>
    /\ e.original_name # <<>>
    /\ e.type \in {"MOVIE", "TV"}

\* the rules of the media's type
RulesFor(e) == IF e.type = "MOVIE" THEN movie_rules ELSE tv_rules

\* a rule matches: its path is empty or contained in the source path, and
\* its pattern matches the original name
RuleMatches(rule, e) ==
    /\ rule.path = <<>> \/ Contains(e.path, rule.path)
    /\ re_search(rule.pattern, e.original_name) = "match"

Matching(e) == {i \in 1..Len(RulesFor(e)) : RuleMatches(RulesFor(e)[i], e)}

\* the first matching rule
FirstMatch(e) == RulesFor(e)[CHOOSE i \in Matching(e) : \A j \in Matching(e) : i <= j]

\* C16: the rule #RX#HD, written with an empty path, is accepted by
\* _parse_rules as the rule of pattern RX and category HD for any path, and
\* a movie on any source path whose name matches RX is given that category.
C16_EmptyPathRuleAccepted ==
    (category_config.movie_rules = EmptyPathText) =>
        /\ movie_rules = << [path |-> <<>>, pattern |-> <<"R", "X">>, category |-> <<"H", "D">>] >>
        /\ (/\ step.kind = "category"
            /\ Evaluated(step.in)
            /\ step.in.type = "MOVIE"
            /\ re_search(<<"R", "X">>, step.in.original_name) = "match") =>
                /\ step.out.updated
                /\ step.out.category \in {<<"H", "D">>, step.in.category \o <<"/", "H", "D">>}

\* C17: when the handler evaluates the rules of the media's type, the first
\* rule, from the top, whose path is empty or contained in the source path
\* and whose pattern matches the original name alone decides the category;
\* a rule whose pattern is no valid regex matches nothing and the rules
\* after it are still evaluated; when no rule matches, the event and the
\* category are as they came.
C17_FirstMatchDecides ==
    (step.kind = "category" /\ Evaluated(step.in)) =>
        IF Matching(step.in) = {}
        THEN step.out = step.in
        ELSE /\ step.out.updated
             /\ step.out.category \in
                    { FirstMatch(step.in).category,
                      step.in.category \o <<"/">> \o FirstMatch(step.in).category }

\* the first rule has an invalid pattern, the second and the third match:
\* the second decides
C17_Witness ==
    /\ step.kind = "category"
    /\ Evaluated(step.in)
    /\ Len(RulesFor(step.in)) = 3
    /\ re_search(RulesFor(step.in)[1].pattern, step.in.original_name) = "error"
    /\ Matching(step.in) = {2, 3}
    /\ step.out.category = RulesFor(step.in)[2].category
    /\ RulesFor(step.in)[2].category # RulesFor(step.in)[3].category

\* C18: when a rule matches, the final category is the rule's category if
\* override is on, and the original category, "/" and the rule's category
\* if it is off (the rule's category alone without an original category);
\* the updated render path is the final category, "/" and the render path
\* without its leading original-category folder, and the event is marked
\* updated with source FileNameCategory.
C18_FinalCategoryAndPath ==
    (step.kind = "category" /\ Evaluated(step.in) /\ Matching(step.in) # {}) =>
        LET original == step.in.category
            new      == FirstMatch(step.in).category
            final    == IF override_category THEN new
                        ELSE IF original = <<>> THEN new
                        ELSE original \o <<"/">> \o new
            folder   == original \o <<"/">>
            rest     == IF original # <<>> /\ Len(step.in.render_str) >= Len(folder)
                           /\ \A i \in 1..Len(folder) : step.in.render_str[i] = folder[i]
                        THEN [i \in 1..(Len(step.in.render_str) - Len(folder)) |->
                                 step.in.render_str[i + Len(folder)]]
                        ELSE step.in.render_str
        IN /\ step.out.category = final
           /\ step.out.updated_str = final \o <<"/">> \o rest
           /\ step.out.updated
           /\ step.out.source = "FileNameCategory"

\* override off: the category M becomes M/HD and the render path M/t
\* becomes M/HD/t
C18_Witness ==
    /\ step.kind = "category"
    /\ ~override_category
    /\ step.in.category = <<"M">>
    /\ step.in.render_str = <<"M", "/", "t">>
    /\ step.out.category = <<"M", "/", "H", "D">>
    /\ step.out.updated_str = <<"M", "/", "H", "D", "/", "t">>
    /\ step.out.source = "FileNameCategory"

\* C21: when a port probe has returned, whatever its outcome, the socket it
\* created is closed.
C21_SocketClosed ==
    (step.kind = "probe" /\ step.method = "port") => step.sock = "closed"

\* C22: the cache changes only in a probe step of the worker, and then only
\* in the entry of the probed key; init_plugin, stop_service, get_state and
\* get_page leave it as it is, and get_page and get_state leave the whole
\* plugin state as it is.
C22_SingleWriter ==
    [][ /\ (device_status' # device_status) =>
              /\ step'.kind = "probe"
              /\ pc[step'.thread] = "probe"
              /\ \A k \in DOMAIN device_status \ {step'.key} :
                    k \in DOMAIN device_status' /\ device_status'[k] = device_status[k]
        /\ (step'.kind \in {"page", "state"}) =>
              /\ device_status' = device_status
              /\ devices' = devices
              /\ enabled' = enabled
              /\ stop_event' = stop_event
              /\ monitor_thread' = monitor_thread
              /\ pc' = pc ]_vars

\* get_page has returned the cached status of a device while the worker
\* is in a probe
C22_Witness ==
    /\ step.kind = "page"
    /\ \E i \in 1..Len(step.rows) : step.rows[i].status \in {"online", "offline"}
    /\ \E t \in Threads : pc[t] = "probe"
    /\ Cardinality(DOMAIN device_status) >= 2

\* C23: the set of cached keys only grows; a key whose device a
\* reconfiguration dropped (or whose port it changed or removed) keeps its
\* entry, and the next probe of that key reads the stale entry as its last
\* status and notifies only if the status differs from it.
C23_KeysNeverPurged ==
    [][ /\ DOMAIN device_status \subseteq DOMAIN device_status'
        /\ carried'.orphaned \subseteq DOMAIN device_status'
        /\ (step'.kind = "probe" /\ ~step'.raised /\ step'.key \in carried.orphaned) =>
              /\ step'.last_status = device_status[step'.key].status
              /\ (step'.events # <<>>) <=>
                    (device_status[step'.key].status # step'.current_status) ]_vars

\* a device that a reconfiguration had dropped is in the list again, and
\* its first probe since found the status of the stale entry and emitted
\* nothing
C23_Witness ==
    /\ Probed
    /\ carried.stale = step.key
    /\ step.key \in ListKeys(devices[Main])
    /\ step.device \in {devices[Main][i] : i \in 1..Len(devices[Main])}
    /\ step.last_status = step.current_status
    /\ step.events = <<>>

\* a probe step, its cache entry and its event are for a device with an
\* address
ProbedHasAddress ==
    (step.kind = "probe") =>
        /\ Truthy(Get(step.device, "ip", None))
        /\ \A i \in 1..Len(step.events) : Truthy(step.events[i].device_ip)

\* C24: every item of the device list is a device with a non-empty name
\* and a non-empty address, and the worker probes, caches and notifies only
\* for devices with an address.
C24_DevicesValid ==
    /\ \A i \in 1..Len(devices[Main]) :
          /\ IsDict(devices[Main][i])
          /\ Truthy(Get(devices[Main][i], "name", None))
          /\ Truthy(Get(devices[Main][i], "ip", None))
    /\ ProbedHasAddress

\* the port of a device as the claim classifies it
PortClass(d) ==
    IF "port" \notin DOMAIN d THEN "none"
    ELSE CASE d.port \in {"None", "''", "0"} -> "none"
           [] d.port \in {"445", "'445'"}    -> "integer"
           [] OTHER                          -> "not_integer"

\* C10: a device with a port that parses as an integer is probed by port,
\* a device with no port by ping, a device whose port does not parse by
\* ping; in the last case the worker goes on to the pacing delay with the
\* rest of the list still to visit.
C10_ProbeChoice ==
    step.kind = "probe" =>
        /\ PortClass(step.device) = "integer" => step.method = "port"
        /\ PortClass(step.device) = "none" => step.method = "ping"
        /\ PortClass(step.device) = "not_integer" =>
              /\ step.method = "ping"
              /\ ~step.raised
              /\ pc[step.thread] = "pace"
              /\ iter[step.thread][idx[step.thread]] = step.device

\* a device with a port that does not parse was probed by ping and another
\* device of the list remains
C10_Witness ==
    /\ step.kind = "probe"
    /\ PortClass(step.device) = "not_integer"
    /\ step.method = "ping"
    /\ idx[step.thread] < Len(iter[step.thread])

InProbe == {t \in Threads : pc[t] = "probe"}

\* C19: in a step that begins and ends with the stop event set, no worker
\* begins a probe; a worker in the for loop leaves it for the wait, a
\* worker in the wait returns to the loop test, whatever the interval, and a
\* worker at the loop test leaves the loop; and at most one probe is in
\* flight, so that at most one probe completes, with at most one
\* notification, while the event stays set.
C19_NoNewProbeWhileStopped ==
    [][ (stop_event /\ stop_event') =>
          /\ Cardinality(InProbe) <= 1
          /\ \A t \in Threads :
                /\ pc'[t] = "probe" => pc[t] = "probe"
                /\ (pc[t] = "for" /\ pc'[t] # "for") => pc'[t] = "wait"
                /\ (pc[t] = "wait" /\ pc'[t] # "wait") => pc'[t] = "while"
                /\ (pc[t] = "while" /\ pc'[t] # "while") => pc'[t] = "exit"
          /\ (step'.kind = "probe") =>
                /\ InProbe' = {}
                /\ Len(step'.events) <= 1 ]_vars

\* the stop event was set during a cycle: the worker is in the wait with
\* devices of its list not visited
C19_Witness ==
    /\ stop_event
    /\ \E t \in Threads :
          /\ pc[t] = "wait"
          /\ idx[t] >= 1
          /\ idx[t] < Len(iter[t])

\* C12: for every device of the list, whatever the form of its port, the
\* page reports the status the cache holds under the worker's key of the
\* device, and unknown only when the cache holds none.
C12_PageReportsCachedStatus ==
    (step.kind = "page" /\ ~step.raised) =>
        \A i \in 1..Len(step.rows) :
            LET device == devices[step.self][i]
                key    == device_key(Get(device, "ip", None), Get(device, "port", None))
            IN step.rows[i].status =
                  IF key \in DOMAIN device_status THEN device_status[key].status
                                                  ELSE "unknown"

\* C14: after init_plugin with the device list given as the text lines
\* OnlyName and NAS#10.0.0.5#445 the load has not failed and the device list
\* is the one device of name NAS, address 10.0.0.5 and port 445.
C14_TextLinesParsed ==
    (host_pc = "idle" /\ host_last \in {"init_text:raised", "init_text:not_started"}) =>
        /\ host_last # "init_text:raised"
        /\ devices[host_self] = <<NAS>>

\* the statuses a log holds for key k, in order
RECURSIVE ForKey(_, _)
ForKey(log, k) ==
    IF log = <<>> THEN <<>>
    ELSE IF Head(log)[1] = k THEN <<Head(log)[2]>> \o ForKey(Tail(log), k)
    ELSE ForKey(Tail(log), k)

\* a sequence with consecutive repeats collapsed
RECURSIVE Collapse(_)
Collapse(seq) ==
    IF Len(seq) <= 1 THEN seq
    ELSE IF seq[1] = seq[2] THEN Collapse(Tail(seq))
    ELSE <<seq[1]>> \o Collapse(Tail(seq))

LoggedKeys == {probe_log[i][1] : i \in 1..Len(probe_log)}

\* the last element of a non-empty sequence
Last(seq) == seq[Len(seq)]

\* C20: after every completed probe step for key k the cache holds for k
\* the status the probe computed, online iff the probe succeeded, whether
\* the status changed or not and whether the event was delivered or not;
\* every cache entry is online or offline, and, as long as the history
\* holds every probe, is the result of the last probe of its key.
C20_CacheHoldsLastProbe ==
    /\ Probed =>
          /\ step.key \in DOMAIN device_status
          /\ device_status[step.key].status = step.current_status
          /\ (step.current_status = "online") <=>
                (step.outcome = "answer" /\ IsNumber(timeout[inst[step.thread]]))
    /\ \A k \in DOMAIN device_status :
          /\ device_status[k].status \in {"online", "offline"}
          /\ Len(probe_log) < MaxLog =>
                /\ k \in LoggedKeys
                /\ Last(ForKey(probe_log, k)) = device_status[k].status

\* the second probe of a key found another status than the first and its
\* event could not be published
C20_Witness ==
    /\ Probed
    /\ step.last_status \notin {None, step.current_status}
    /\ step.events # <<>>
    /\ ~step.events[1].delivered
    /\ Len(probe_log) < MaxLog
    /\ Len(ForKey(probe_log, step.key)) = 2

\* C2: starting from an empty cache, the notifications sent for a key are
\* the probe results of that key with consecutive repeats collapsed.
C2_NotificationsAreCollapsedProbes ==
    /\ \A i \in 1..Len(notif_log) : notif_log[i][1] \in LoggedKeys
    /\ \A k \in LoggedKeys : ForKey(notif_log, k) = Collapse(ForKey(probe_log, k))

\* one key probed online, online, offline, and notified online, offline
C2_Witness ==
    \E k \in LoggedKeys :
        /\ ForKey(probe_log, k) = <<"online", "online", "offline">>
        /\ ForKey(notif_log, k) = <<"online", "offline">>


----------------------------------------------------------------------------
\* within a cycle: a probe is begun only by the for loop taking its next
\* device, it is the probe of that device, it ends in the pause before the
\* next device or in the except clause (never in another probe of the same
\* device), and the position in the list only moves on by one
InListOrder ==
    \A t \in Threads :
        /\ (pc'[t] = "probe" /\ pc[t] # "probe") =>
               (pc[t] = "for" /\ idx'[t] = idx[t] + 1 /\ iter'[t] = iter[t])
        /\ (step'.kind = "probe" /\ step'.thread = t) =>
               /\ pc[t] = "probe" /\ pc'[t] \in {"pace", "backoff"}
               /\ step'.device = iter[t][idx[t]]
               /\ step'.method \in {"port", "ping"}
               /\ idx'[t] = idx[t] /\ iter'[t] = iter[t]
        /\ (idx'[t] # idx[t]) =>
               \/ pc[t] = "for" /\ idx'[t] = idx[t] + 1
               \/ pc[t] \in {"while", "exit"} /\ idx'[t] = 0

\* a cycle begins at the first device of the current list, and only as the
\* first cycle of the thread, or after a for loop that exhausted its list,
\* or after an error (which leads through the backoff)
CycleBegins(t) == pc[t] = "while" /\ pc'[t] = "for"

NewCycleOnlyAfterExhaustion ==
    \A t \in Threads :
        CycleBegins(t) =>
            /\ idx'[t] = 0 /\ iter'[t] = devices[inst[t]]
            /\ loop_end[t] \in {"none", "exhausted", "error"}

C25_InListOrder == [][InListOrder]_vars

\* C25: within one cycle the worker visits the devices in list order with
\* exactly one probe per visited device, never a retry; a new cycle begins
\* only after the list is exhausted and the wait has ended, or after the
\* error backoff, and then from the first device
C25_CycleDiscipline == [][InListOrder /\ NewCycleOnlyAfterExhaustion]_vars


----------------------------------------------------------------------------
MidCycle == {"for", "probe", "pace"}

----------------------------------------------------------------------------
\* the last call of the host was an init_plugin that has returned
AfterInitPlugin ==
    /\ host_pc = "idle"
    /\ host_last \in {"init:no_config", "init:started", "init:already_running",
                      "init:not_started", "init_text:not_started", "init_text:raised"}

\* C27: after an init_plugin that leaves get_state False (disabled, or no
\* device in the list), no worker of the instance starts another probe
C27_StateAgreesWithWorker ==
    [][(AfterInitPlugin /\ ~get_state(enabled[host_self], devices[host_self])) =>
          \A t \in Threads :
              ~(inst[t] = host_self /\ pc[t] # "probe" /\ pc'[t] = "probe")
      ]_vars

====
